---- MODULE Spec2Model ----
(***************************************************************************)
(* A model of fastbloom-rs: the FilterBuilder of src/fastbloom-rs/src/     *)
(* builder.rs (optimal_m, optimal_k, new, the setters, complete,           *)
(* build_bloom_filter, is_compatible_to), the double-hashing function      *)
(* bloom_hash of src/benches/fastbloom.rs, and the bit-array filter        *)
(* (crate::filter::BloomFilter) that the builder constructs.               *)
(*                                                                         *)
(* Machine integers (u32, u64, u128) do not fit TLC's 32-bit integers, so  *)
(* every machine integer is a natural number written in base 256,          *)
(* little-endian, without leading zero digits (<<>> is 0).  A finite f64   *)
(* is sign, mantissa and exponent: m * 2^e with m of exactly 53 bits (or   *)
(* 0), rounded to nearest, ties to even, after every operation, as         *)
(* IEEE-754 binary64 does.                                                 *)
(***************************************************************************)
EXTENDS Integers, Sequences, FiniteSets, TLC

(***************************************************************************)
(* Let1(x, Op) is Op(x) with x evaluated once, before Op is applied.       *)
(***************************************************************************)
Let1(x, Op(_)) == CHOOSE v \in {Op(y) : y \in {x}} : TRUE

(***************************************************************************)
(* Natural numbers in base 256.                                            *)
(***************************************************************************)
RECURSIVE TopLen(_, _)
\* the position of the highest non-zero digit among the first n of s
TopLen(s, n) == IF n = 0 THEN 0 ELSE IF s[n] # 0 THEN n ELSE TopLen(s, n - 1)

\* s without its leading zero digits
Norm(s0) == Let1(s0 \o <<>>, LAMBDA s : SubSeq(s, 1, TopLen(s, Len(s))))

RECURSIVE Nat2Big(_)
Nat2Big(n) == IF n = 0 THEN <<>> ELSE <<n % 256>> \o Nat2Big(n \div 256)

RECURSIVE Big2NatFrom(_, _)
Big2NatFrom(a, i) ==
    IF i > Len(a) THEN 0 ELSE a[i] + 256 * Big2NatFrom(a, i + 1)

\* the number a, which is below 2^31
Big2Nat(a0) == Let1(a0, LAMBDA a : Big2NatFrom(a, 1))

Digit(a, i) == IF 0 < i /\ i <= Len(a) THEN a[i] ELSE 0

RECURSIVE Pow2(_)
Pow2(e) == IF e = 0 THEN 1 ELSE 2 * Pow2(e - 1)

\* a * 256^k
ShiftDigits(a0, k) ==
    Let1(a0, LAMBDA a :
        IF a = <<>> THEN a ELSE [i \in 1..k |-> 0] \o a)

\* a \div 256^k
DropDigits(a0, k) ==
    Let1(a0, LAMBDA a :
        IF Len(a) <= k THEN <<>> ELSE SubSeq(a, k + 1, Len(a)))

\* a % 256^k
LowDigits(a0, k) ==
    Let1(a0, LAMBDA a : IF Len(a) <= k THEN a ELSE Norm(SubSeq(a, 1, k)))

RECURSIVE CarryFrom(_, _, _)
\* the digits of the number whose columns (digits that may exceed 255)
\* are cols, from column i on with carry c
CarryFrom(cols, i, c) ==
    IF i > Len(cols)
    THEN (IF c = 0 THEN <<>>
          ELSE <<c % 256>> \o CarryFrom(cols, i, c \div 256))
    ELSE <<(cols[i] + c) % 256>>
             \o CarryFrom(cols, i + 1, (cols[i] + c) \div 256)

Carry(cols0, c) == Let1(cols0 \o <<>>, LAMBDA cols : Norm(CarryFrom(cols, 1, c)))

BAdd(a0, b0) ==
    Let1(a0, LAMBDA a : Let1(b0, LAMBDA b :
        Carry([i \in 1..(IF Len(a) < Len(b) THEN Len(b) ELSE Len(a))
                  |-> Digit(a, i) + Digit(b, i)], 0)))

\* a - b for b <= a: a plus the complement of b, less the top carry
BSub(a0, b0) ==
    Let1(a0, LAMBDA a : Let1(b0, LAMBDA b :
        Norm(SubSeq(CarryFrom([i \in 1..Len(a)
                                  |-> a[i] + 255 - Digit(b, i)] \o <<>>, 1, 1),
                    1, Len(a)))))

RECURSIVE CmpFrom(_, _, _)
CmpFrom(a, b, i) ==
    IF i = 0 THEN 0
    ELSE IF a[i] < b[i] THEN -1
    ELSE IF a[i] > b[i] THEN 1
    ELSE CmpFrom(a, b, i - 1)

\* -1, 0, 1 as a < b, a = b, a > b
BCmp(a0, b0) ==
    Let1(a0, LAMBDA a : Let1(b0, LAMBDA b :
        IF Len(a) < Len(b) THEN -1
        ELSE IF Len(a) > Len(b) THEN 1
        ELSE CmpFrom(a, b, Len(a))))

BLt(a, b) == BCmp(a, b) < 0
BLe(a, b) == BCmp(a, b) <= 0

\* a * k for k < 2^22
BMulSmall(a0, k0) ==
    Let1(a0, LAMBDA a : Let1(k0, LAMBDA k :
        Carry([i \in 1..Len(a) |-> a[i] * k], 0)))

RECURSIVE Column(_, _, _, _)
\* the sum of the a[i] * b[j] with i + j = n + 1, from i on up to hi
Column(a, b, n, i) ==
    IF i > Len(a) \/ i > n THEN 0
    ELSE (IF n + 1 - i <= Len(b) THEN a[i] * b[n + 1 - i] ELSE 0)
             + Column(a, b, n, i + 1)

BMul(a0, b0) ==
    Let1(a0, LAMBDA a : Let1(b0, LAMBDA b :
        IF a = <<>> \/ b = <<>> THEN <<>>
        ELSE Carry([n \in 1..(Len(a) + Len(b) - 1) |-> Column(a, b, n, 1)],
                   0)))

RECURSIVE DivSmallFrom(_, _, _, _)
\* a's digits i..1 divided by d, r being the remainder of the digits
\* above i: the remainder, followed by the quotient's digits
DivSmallFrom(a, d, i, r) ==
    IF i = 0 THEN <<r>>
    ELSE DivSmallFrom(a, d, i - 1, (r * 256 + a[i]) % d)
             \o <<(r * 256 + a[i]) \div d>>

\* quotient and remainder of a by d, 0 < d < 2^23; the remainder is a
\* TLA+ number
BDivModSmall(a0, d0) ==
    Let1(a0, LAMBDA a : Let1(d0, LAMBDA d :
    Let1(DivSmallFrom(a, d, Len(a), 0), LAMBDA s :
        [q |-> Norm(Tail(s)), r |-> s[1]])))

\* a lower bound of t \div b from their top digits, for b of at least two
\* digits and t < 256 * b; it is at most 2 below the quotient
QEst(t, b) ==
    (Digit(t, Len(b) + 1) * 65536 + Digit(t, Len(b)) * 256
         + Digit(t, Len(b) - 1))
    \div (b[Len(b)] * 256 + b[Len(b) - 1] + 1)

RECURSIVE QFix(_, _, _)
\* the quotient digit t \div b, from the lower bound q
QFix(t, b, q) ==
    IF BLe(BMulSmall(b, q + 1), t) THEN QFix(t, b, q + 1) ELSE q

\* one step of long division: bring down the next digit
DivStep(st0, digit, b) ==
    Let1(st0, LAMBDA st :
    Let1(Norm(<<digit>> \o st.r), LAMBDA t :
        IF BLt(t, b) THEN [q |-> <<0>> \o st.q, r |-> t]
        ELSE Let1(QFix(t, b, QEst(t, b)), LAMBDA q :
                 [q |-> <<q>> \o st.q, r |-> BSub(t, BMulSmall(b, q))])))

RECURSIVE DivFrom(_, _, _)
\* long division over a's digits i and above
DivFrom(a, b, i) ==
    IF i > Len(a) THEN [q |-> <<>>, r |-> <<>>]
    ELSE DivStep(DivFrom(a, b, i + 1), a[i], b)

\* quotient and remainder of a by b, b # 0
BDivMod(a0, b0) ==
    Let1(a0, LAMBDA a : Let1(b0, LAMBDA b :
        IF Len(b) <= 2
        THEN Let1(BDivModSmall(a, Big2Nat(b)), LAMBDA d :
                 [q |-> d.q, r |-> Nat2Big(d.r)])
        ELSE IF BLt(a, b) THEN [q |-> <<>>, r |-> a]
        ELSE Let1(DivFrom(a, b, 1), LAMBDA d :
                 [q |-> Norm(d.q), r |-> d.r])))

BMod(a, b) == BDivMod(a, b).r

RECURSIVE BitsOf(_)
\* the number of bits of x
BitsOf(x) == IF x = 0 THEN 0 ELSE 1 + BitsOf(x \div 2)

\* the number of bits of a
BitLen(a0) ==
    Let1(a0, LAMBDA a :
        IF a = <<>> THEN 0 ELSE 8 * (Len(a) - 1) + BitsOf(a[Len(a)]))

\* a * 2^s
BShl(a, s0) ==
    Let1(s0, LAMBDA s : ShiftDigits(BMulSmall(a, Pow2(s % 8)), s \div 8))

\* a \div 2^s
BShr(a, s0) ==
    Let1(s0, LAMBDA s :
        BDivModSmall(DropDigits(a, s \div 8), Pow2(s % 8)).q)

RECURSIVE DigitAnd(_, _, _)
\* x & y for numbers of k bits
DigitAnd(x, y, k) ==
    IF k = 0 THEN 0
    ELSE (x % 2) * (y % 2) + 2 * DigitAnd(x \div 2, y \div 2, k - 1)

\* a & b
BAnd(a0, b0) ==
    Let1(a0, LAMBDA a : Let1(b0, LAMBDA b :
        Norm([i \in 1..(IF Len(a) < Len(b) THEN Len(a) ELSE Len(b))
                 |-> DigitAnd(a[i], b[i], 8)])))

(***************************************************************************)
(* f64.  A value is NaN, an infinity or a finite number; neg is the sign   *)
(* bit; a finite value is m * 2^e, where m = 0 (and e = 0) or m has        *)
(* exactly 53 bits.  The exponents that the code's values reach are far    *)
(* from the ends of binary64's range.                                      *)
(***************************************************************************)
NaN == [k |-> "nan", neg |-> FALSE, m |-> <<>>, e |-> 0]

Inf(neg) == [k |-> "inf", neg |-> neg, m |-> <<>>, e |-> 0]

\* v \div 2^s rounded to nearest, ties to even; st says that the exact
\* value is slightly above v
RoundShr(v, s, st) ==
    Let1(BShr(v, s), LAMBDA q :
    Let1(BCmp(BSub(v, BShl(q, s)), BShl(<<1>>, s - 1)), LAMBDA c :
        IF c > 0 \/ (c = 0 /\ (st \/ q[1] % 2 = 1))
        THEN BAdd(q, <<1>>) ELSE q))

\* the f64 nearest to v * 2^e (slightly more if st), with sign neg
Fin(neg, v0, st, e) ==
    Let1(v0, LAMBDA v : Let1(BitLen(v), LAMBDA len :
        IF len = 0 THEN [k |-> "fin", neg |-> neg, m |-> <<>>, e |-> 0]
        ELSE IF len <= 53
        THEN [k |-> "fin", neg |-> neg, m |-> BShl(v, 53 - len),
              e |-> e - (53 - len)]
        ELSE Let1(RoundShr(v, len - 53, st), LAMBDA m :
                 IF BitLen(m) = 54
                 THEN [k |-> "fin", neg |-> neg, m |-> BShr(m, 1),
                       e |-> e + len - 52]
                 ELSE [k |-> "fin", neg |-> neg, m |-> m,
                       e |-> e + len - 53])))

IsZero(x) == x.k = "fin" /\ x.m = <<>>

\* n as f64
U64ToF64(n) == Fin(FALSE, n, FALSE, 0)

FNeg(x0) ==
    Let1(x0, LAMBDA x : IF x.k = "nan" THEN x ELSE [x EXCEPT !.neg = ~x.neg])

FMul(x0, y0) ==
    Let1(x0, LAMBDA x : Let1(y0, LAMBDA y :
        IF x.k = "nan" \/ y.k = "nan" THEN NaN
        ELSE IF x.k = "inf" \/ y.k = "inf"
        THEN (IF IsZero(x) \/ IsZero(y) THEN NaN ELSE Inf(x.neg # y.neg))
        ELSE Fin(x.neg # y.neg, BMul(x.m, y.m), FALSE, x.e + y.e)))

FDiv(x0, y0) ==
    Let1(x0, LAMBDA x : Let1(y0, LAMBDA y :
        IF x.k = "nan" \/ y.k = "nan" THEN NaN
        ELSE IF x.k = "inf"
        THEN (IF y.k = "inf" THEN NaN ELSE Inf(x.neg # y.neg))
        ELSE IF y.k = "inf" THEN Fin(x.neg # y.neg, <<>>, FALSE, 0)
        ELSE IF IsZero(y)
        THEN (IF IsZero(x) THEN NaN ELSE Inf(x.neg # y.neg))
        ELSE Let1(BDivMod(ShiftDigits(x.m, 7), y.m), LAMBDA d :
                 Fin(x.neg # y.neg, d.q, d.r # <<>>, x.e - y.e - 56))))

\* the integer x.ceil() of a finite x > 0
CeilMag(x) ==
    IF x.e >= 0 THEN BShl(x.m, x.e)
    ELSE IF x.e <= -53 THEN <<1>>
    ELSE Let1(BShr(x.m, -x.e), LAMBDA int :
             IF BShl(int, -x.e) = x.m THEN int ELSE BAdd(int, <<1>>))

\* x.ceil() as an unsigned integer of `bits` bits: the cast saturates, and
\* NaN becomes 0
CeilAsUnsigned(x0, bits) ==
    Let1(x0, LAMBDA x :
        IF x.k = "nan" \/ x.neg \/ IsZero(x) THEN <<>>
        ELSE IF x.k = "inf" THEN BSub(BShl(<<1>>, bits), <<1>>)
        ELSE IF 53 + x.e > bits THEN BSub(BShl(<<1>>, bits), <<1>>)
        ELSE Let1(CeilMag(x), LAMBDA c :
                 IF BitLen(c) > bits THEN BSub(BShl(<<1>>, bits), <<1>>)
                 ELSE c))

(***************************************************************************)
(* A probability p is given in thousandths: 10 is the f64 0.01.  LnMag     *)
(* and LnExp are mantissa and exponent of |ln(p)| for those f64 values,    *)
(* as the f64 that ln returns.                                             *)
(***************************************************************************)
LnMag(pm) ==
    CASE pm = 1    -> <<160, 255, 143, 153, 138, 161, 27>>
      [] pm = 10   -> <<21, 85, 181, 187, 177, 107, 18>>
      [] pm = 500  -> <<239, 57, 250, 254, 66, 46, 22>>
      [] pm = 990  -> <<188, 212, 111, 62, 69, 149, 20>>
      [] pm = 1000 -> <<>>
      [] pm = 1500 -> <<76, 152, 191, 236, 35, 243, 25>>

LnExp(pm) ==
    CASE pm = 1    -> -50
      [] pm = 10   -> -50
      [] pm = 500  -> -53
      [] pm = 990  -> -59
      [] pm = 1000 -> 0
      [] pm = 1500 -> -54

\* p.ln()
FLn(pm) ==
    IF pm < 0 THEN NaN
    ELSE IF pm = 0 THEN Inf(TRUE)
    ELSE [k |-> "fin", neg |-> pm < 1000, m |-> LnMag(pm), e |-> LnExp(pm)]

\* 2f64.ln()
Ln2 == [k |-> "fin", neg |-> FALSE,
        m |-> <<239, 57, 250, 254, 66, 46, 22>>, e |-> -53]

(***************************************************************************)
(* builder.rs: the parameter calculator.                                   *)
(***************************************************************************)
SUFFIX == 31

MASK == <<224, 255, 255, 255, 255, 255, 255, 255>>

U64Max == <<255, 255, 255, 255, 255, 255, 255, 255>>

\* optimal_m up to `let mut m = m.ceil() as u64`
optimal_m_ceil(n, p) ==
    Let1(FMul(FNeg(U64ToF64(n)), FLn(p)), LAMBDA fact :
    Let1(FMul(Ln2, Ln2), LAMBDA div :
        CeilAsUnsigned(FDiv(fact, div), 64)))

\* the rounding step without `+ SUFFIX + 1`: it rounds down
optimal_m_sum_round_down(m) == BAnd(m, MASK)

\* the u64 arithmetic of the rounding step: (m & MASK) + SUFFIX + 1 as a
\* natural number, before it is stored in a u64
optimal_m_sum(m) == BAdd(BAdd(BAnd(m, MASK), Nat2Big(SUFFIX)), <<1>>)

\* optimal_m: `overflow` says that the rounding step's addition exceeds
\* u64 (a panic where overflow checks are on); m is the value returned
\* where they are off (the sum wraps).
optimal_m(n, p) ==
    Let1(optimal_m_ceil(n, p), LAMBDA m :
        IF BAnd(m, Nat2Big(SUFFIX)) # <<>>
        THEN Let1(optimal_m_sum(m), LAMBDA sum :
                 [overflow |-> BitLen(sum) > 64, m |-> LowDigits(sum, 8)])
        ELSE [overflow |-> FALSE, m |-> m])

optimal_k(n, m) ==
    CeilAsUnsigned(FDiv(FMul(U64ToF64(m), Ln2), U64ToF64(n)), 32)

(***************************************************************************)
(* builder.rs: FilterBuilder.  A builder is a record of the struct's       *)
(* fields; expected_elements, size and hashes are machine integers and     *)
(* false_positive_probability is in thousandths.                           *)
(***************************************************************************)
new(expected_elements, false_positive_probability) ==
    [expected_elements          |-> expected_elements,
     false_positive_probability |-> false_positive_probability,
     size                       |-> <<>>,
     hashes                     |-> <<>>,
     done                       |-> FALSE]

\* The setters return the builder after the call; panic says that the
\* method's assert! failed (the builder is then as before).
set_expected_elements(self, expected_elements) ==
    IF expected_elements # <<>>
    THEN [panic |-> FALSE,
          b     |-> [self EXCEPT !.expected_elements = expected_elements]]
    ELSE [panic |-> TRUE, b |-> self]

set_false_positive_probability(self, false_positive_probability) ==
    IF false_positive_probability < 1000 /\ false_positive_probability > 0
    THEN [panic |-> FALSE,
          b     |-> [self EXCEPT !.false_positive_probability =
                                     false_positive_probability]]
    ELSE [panic |-> TRUE, b |-> self]

set_size(self, size) == [self EXCEPT !.size = size]

\* the body of complete's `if !self.done`: the set of its outcomes.  Where
\* optimal_m's addition exceeds u64 the call panics under overflow checks
\* and goes on with the wrapped sum without them; both builds exist.
complete_derive(self) ==
    IF self.size = <<>>
    THEN Let1(optimal_m(self.expected_elements,
                        self.false_positive_probability), LAMBDA r :
         Let1([self EXCEPT
                 !.size   = r.m,
                 !.hashes = optimal_k(self.expected_elements, r.m),
                 !.done   = TRUE], LAMBDA d :
             IF r.overflow
             THEN {[panic |-> TRUE, b |-> self], [panic |-> FALSE, b |-> d]}
             ELSE {[panic |-> FALSE, b |-> d]}))
    ELSE {[panic |-> FALSE, b |-> [self EXCEPT !.done = TRUE]]}

\* complete without the test of done
complete_every_time(self) == complete_derive(self)

complete(self) ==
    IF self.done THEN {[panic |-> FALSE, b |-> self]}
    ELSE complete_derive(self)

\* a comparison that leaves the hash count out
is_compatible_to_size_only(self, other) == self.size = other.size

is_compatible_to(self, other) ==
    self.size = other.size /\ self.hashes = other.hashes

(***************************************************************************)
(* benches/fastbloom.rs: bloom_hash.  A keyed hasher is its key and the    *)
(* bytes written to it; SipFinish is the 64-bit digest of that, a fixed    *)
(* function of key and bytes.                                              *)
(***************************************************************************)
sip_new(key) == [key |-> key, buf |-> <<>>]

SipWrite(sip, item) == [sip EXCEPT !.buf = @ \o item]

RECURSIVE SipMix(_, _)
SipMix(acc, buf) ==
    IF buf = <<>> THEN acc
    ELSE SipMix((acc * 31 + Head(buf) + 17) % 65521, Tail(buf))

SipFinish(sip) ==
    Let1(SipMix(sip.key, sip.buf), LAMBDA x :
        Norm([j \in 1..8 |-> (x * (2 * j + 1) + (x \div 256) + 7 * j) % 256]))

\* 0xffffffffffffffc5
HashModulus == <<197, 255, 255, 255, 255, 255, 255, 255>>

\* bloom_hash with `let sip = &mut sips[k_i]` in place of the clone: the
\* caller's hasher keeps the bytes written to it
bloom_hash_no_clone(hashes, item, k_i, sips) ==
    IF k_i < 2
    THEN Let1(SipWrite(sips[k_i + 1], item), LAMBDA sip :
         Let1(SipFinish(sip), LAMBDA hash :
             [ret    |-> hash,
              hashes |-> [hashes EXCEPT ![k_i + 1] = hash],
              sips   |-> [sips EXCEPT ![k_i + 1] = sip]]))
    ELSE Let1(LowDigits(BMulSmall(hashes[2], k_i), 16), LAMBDA prod :
         Let1(LowDigits(BAdd(hashes[1], prod), 16), LAMBDA sum :
             [ret    |-> BMod(LowDigits(sum, 8), HashModulus),
              hashes |-> hashes,
              sips   |-> sips]))

\* bloom_hash returns the hash; hashes and sips are what the two &mut
\* arguments hold after the call.
bloom_hash(hashes, item, k_i, sips) ==
    IF k_i < 2
    THEN Let1(SipWrite(sips[k_i + 1], item), LAMBDA sip :
         Let1(SipFinish(sip), LAMBDA hash :
             [ret    |-> hash,
              hashes |-> [hashes EXCEPT ![k_i + 1] = hash],
              sips   |-> sips]))
    ELSE Let1(LowDigits(BMulSmall(hashes[2], k_i), 16), LAMBDA prod :
         Let1(LowDigits(BAdd(hashes[1], prod), 16), LAMBDA sum :
             [ret    |-> BMod(LowDigits(sum, 8), HashModulus),
              hashes |-> hashes,
              sips   |-> sips]))

(***************************************************************************)
(* crate::filter::BloomFilter: the bit array, its two keyed hashers and    *)
(* the finalized parameters.  bits is the set of the indices of the 1-bits.*)
(***************************************************************************)
BloomFilterNew(b, seed) ==
    [builder |-> b,
     bits    |-> {},
     sips    |-> <<sip_new(seed[1]), sip_new(seed[2])>>]

\* the bit index of hash h; the filter's size is not 0
BitIndex(f, h) == BMod(h, f.builder.size)

\* a bit store that flips the bit
FlipBit(bits, index) ==
    IF index \in bits THEN bits \ {index} ELSE bits \cup {index}

\* the bit array with the bit at index set
SetBit(bits, index) == bits \cup {index}

RECURSIVE AddFrom_i(_, _, _, _)
\* add's loop from index i on: hashes is the call's cache of h_0 and h_1
AddFrom_i(f, item, i, hashes) ==
    IF i >= Big2Nat(f.builder.hashes) THEN [panic |-> FALSE, f |-> f]
    ELSE IF f.builder.size = <<>> THEN [panic |-> TRUE, f |-> f]
    ELSE Let1(bloom_hash(hashes, item, i, f.sips), LAMBDA h :
         Let1([f EXCEPT !.bits = SetBit(@, BitIndex(f, h.ret)),
                        !.sips = h.sips], LAMBDA g :
             AddFrom_i(g, item, i + 1, h.hashes)))

add(f, item) == AddFrom_i(f, item, 0, <<<<>>, <<>>>>)

RECURSIVE ContainsFrom_i(_, _, _, _)
ContainsFrom_i(f, item, i, hashes) ==
    IF i >= Big2Nat(f.builder.hashes)
    THEN [panic |-> FALSE, ret |-> TRUE, f |-> f]
    ELSE IF f.builder.size = <<>>
    THEN [panic |-> TRUE, ret |-> FALSE, f |-> f]
    ELSE Let1(bloom_hash(hashes, item, i, f.sips), LAMBDA h :
         Let1([f EXCEPT !.sips = h.sips], LAMBDA g :
             IF BitIndex(f, h.ret) \notin f.bits
             THEN [panic |-> FALSE, ret |-> FALSE, f |-> g]
             ELSE ContainsFrom_i(g, item, i + 1, h.hashes)))

contains(f, item) == ContainsFrom_i(f, item, 0, <<<<>>, <<>>>>)

\* build_bloom_filter: complete, then the filter made from a clone
build_bloom_filter(self, seed) ==
    {[panic  |-> o.panic,
      b      |-> o.b,
      filter |-> BloomFilterNew(o.b, seed)] : o \in complete(self)}

(***************************************************************************)
(* The state.                                                              *)
(*   builder   the caller's FilterBuilder: <<>> before new, else <<b>>     *)
(*   filters   the caller's filter handles: each <<>> or <<filter>>        *)
(*   added     per handle, the items add was called with (history)         *)
(*   hashes    bloom_hash's cache argument, for calls made directly        *)
(*   sips      bloom_hash's hashers argument, for calls made directly      *)
(*   last      the last call and what it returned                          *)
(*   panicked  the program has panicked (and stopped)                      *)
(***************************************************************************)
VARIABLES builder, filters, added, hashes, sips, last, panicked

vars == <<builder, filters, added, hashes, sips, last, panicked>>

\* 2^63
Pow63 == <<0, 0, 0, 0, 0, 0, 0, 128>>

\* the byte strings "hi" and "hi!"
Items == {<<104, 105>>, <<104, 105, 33>>}

\* the pairs of hasher keys the random source may give
Seeds == {<<1, 2>>, <<3, 4>>}

\* arguments of new in the filter specification
NewN == {<<>>, <<10>>, Pow63}
NewP == {10, 500}

\* arguments of new in the specification of two handles
PairN == {<<10>>, <<20>>}
PairP == {10, 500}

\* 216553 and 2075680, the numbers of optimal_test
RefN == <<233, 77, 3>>
RefM == <<32, 172, 31>>

\* arguments of optimal_m and optimal_k called directly: valid ones
OptN == {<<1>>, <<10>>, <<32>>, <<232, 3>>, RefN, Pow63}
OptP == {1, 10, 500, 990}
OptM == {<<32>>, <<96>>, <<0, 4>>, RefM, Pow63, MASK}

\* the largest index bloom_hash is called with
MaxKi == 4

\* what the cache of h_0 and h_1 may hold when bloom_hash is called
HashPairs == {<<<<>>, <<>>>>, <<<<1>>, <<2>>>>, <<U64Max, <<1>>>>,
              <<HashModulus, U64Max>>}

\* arguments of new and of the setters in the builder specification
BuilderN == {<<>>, <<10>>, <<32>>, Pow63}
BuilderP == {0, 10, 500, 1000}
BuilderSize == {<<>>, <<33>>, <<64>>}

InitWith(handles) ==
    /\ builder = <<>>
    /\ filters = [i \in handles |-> <<>>]
    /\ added = [i \in handles |-> {}]
    /\ hashes = <<<<>>, <<>>>>
    /\ sips = <<>>
    /\ last = [op |-> "init"]
    /\ panicked = FALSE

\* FilterBuilder::new(n, p)
New(n, p) ==
    /\ ~panicked
    /\ builder' = <<new(n, p)>>
    /\ last' = [op |-> "new"]
    /\ UNCHANGED <<filters, added, hashes, sips, panicked>>

ExpectedElements(n) ==
    /\ ~panicked
    /\ builder # <<>>
    /\ \E o \in {set_expected_elements(builder[1], n)} :
          /\ builder' = <<o.b>>
          /\ panicked' = o.panic
    /\ last' = [op |-> "expected_elements"]
    /\ UNCHANGED <<filters, added, hashes, sips>>

FalsePositiveProbability(p) ==
    /\ ~panicked
    /\ builder # <<>>
    /\ \E o \in {set_false_positive_probability(builder[1], p)} :
          /\ builder' = <<o.b>>
          /\ panicked' = o.panic
    /\ last' = [op |-> "false_positive_probability"]
    /\ UNCHANGED <<filters, added, hashes, sips>>

Size(s) ==
    /\ ~panicked
    /\ builder # <<>>
    /\ builder' = <<set_size(builder[1], s)>>
    /\ last' = [op |-> "size"]
    /\ UNCHANGED <<filters, added, hashes, sips, panicked>>

\* builder.complete()
Complete ==
    /\ ~panicked
    /\ builder # <<>>
    /\ \E o \in complete(builder[1]) :
          /\ builder' = <<o.b>>
          /\ panicked' = o.panic
    /\ last' = [op |-> "complete", before |-> builder[1]]
    /\ UNCHANGED <<filters, added, hashes, sips>>

\* handle = builder.build_bloom_filter(); handle 0 is a temporary that is
\* dropped at once
BuildBloomFilter(i) ==
    /\ ~panicked
    /\ builder # <<>>
    /\ \E seed \in Seeds : \E o \in build_bloom_filter(builder[1], seed) :
          /\ builder' = <<o.b>>
          /\ panicked' = o.panic
          /\ IF o.panic \/ i = 0
             THEN UNCHANGED <<filters, added>>
             ELSE /\ filters' = [filters EXCEPT ![i] = <<o.filter>>]
                  /\ added' = [added EXCEPT ![i] = {}]
          /\ last' = [op     |-> "build_bloom_filter",
                      before |-> builder[1],
                      size   |-> o.filter.builder.size,
                      hashes |-> o.filter.builder.hashes]
    /\ UNCHANGED <<hashes, sips>>

\* filters[i].add(item)
Add(i, item) ==
    /\ ~panicked
    /\ filters[i] # <<>>
    /\ \E o \in {add(filters[i][1], item)} :
          /\ filters' = [filters EXCEPT ![i] = <<o.f>>]
          /\ panicked' = o.panic
          /\ added' = IF o.panic THEN added
                       ELSE [added EXCEPT ![i] = @ \cup {item}]
    /\ last' = [op |-> "add", f |-> i, item |-> item,
                again |-> item \in added[i]]
    /\ UNCHANGED <<builder, hashes, sips>>

\* filters[i].contains(item)
Contains(i, item) ==
    /\ ~panicked
    /\ filters[i] # <<>>
    /\ \E o \in {contains(filters[i][1], item)} :
          /\ filters' = [filters EXCEPT ![i] = <<o.f>>]
          /\ panicked' = o.panic
          /\ last' = [op |-> "contains", f |-> i, item |-> item,
                      ret |-> o.ret]
    /\ UNCHANGED <<builder, added, hashes, sips>>

\* filters[i] is compatible to filters[j]: is_compatible_to on their
\* parameters
IsCompatibleTo(i, j) ==
    /\ ~panicked
    /\ filters[i] # <<>>
    /\ filters[j] # <<>>
    /\ last' = [op |-> "is_compatible_to", f |-> i, g |-> j,
                ret |-> is_compatible_to(filters[i][1].builder,
                                         filters[j][1].builder)]
    /\ UNCHANGED <<builder, filters, added, hashes, sips, panicked>>

(***************************************************************************)
(* optimal_m and optimal_k called directly, as optimal_test does.          *)
(***************************************************************************)
OptimalM(n, p) ==
    /\ ~panicked
    /\ \E r \in {optimal_m(n, p)} : \E panic \in {FALSE, r.overflow} :
          /\ panicked' = panic
          /\ last' = [op |-> "optimal_m", n |-> n, p |-> p,
                      ceil |-> optimal_m_ceil(n, p), panic |-> panic,
                      ret |-> r.m]
    /\ UNCHANGED <<builder, filters, added, hashes, sips>>

OptimalK(n, m) ==
    /\ ~panicked
    /\ last' = [op |-> "optimal_k", n |-> n, m |-> m, ret |-> optimal_k(n, m)]
    /\ UNCHANGED <<builder, filters, added, hashes, sips, panicked>>

\* bloom_hash(&mut hashes, &item, k_i, &mut sips)
BloomHash(item, k_i) ==
    /\ ~panicked
    /\ \E o \in {bloom_hash(hashes, item, k_i, sips)} :
          /\ hashes' = o.hashes
          /\ sips' = o.sips
          /\ last' = [op |-> "bloom_hash", k_i |-> k_i, h0 |-> hashes[1],
                      h1 |-> hashes[2], ret |-> o.ret]
    /\ UNCHANGED <<builder, filters, added, panicked>>

(***************************************************************************)
(* The filter behind one handle: new, complete, build, add, contains.      *)
(***************************************************************************)
Init == InitWith({1})

Next ==
    \/ \E n \in NewN, p \in NewP : New(n, p)
    \/ Complete
    \/ \E i \in {0, 1} : BuildBloomFilter(i)
    \/ \E item \in Items : Add(1, item)
    \/ \E item \in Items : Contains(1, item)

Spec == Init /\ [][Next]_vars

(***************************************************************************)
(* Two handles and the compatibility check.                                *)
(***************************************************************************)
InitPair == InitWith({1, 2})

NextPair ==
    \/ \E n \in PairN, p \in PairP : New(n, p)
    \/ Complete
    \/ \E i \in {0, 1, 2} : BuildBloomFilter(i)
    \/ \E i \in {1, 2}, j \in {1, 2} : IsCompatibleTo(i, j)

SpecPair == InitPair /\ [][NextPair]_vars

(***************************************************************************)
(* The builder alone, with its private setters.                            *)
(***************************************************************************)
InitBuilder == InitWith({})

NextBuilder ==
    \/ \E n \in BuilderN, p \in BuilderP : New(n, p)
    \/ \E n \in BuilderN : ExpectedElements(n)
    \/ \E p \in BuilderP : FalsePositiveProbability(p)
    \/ \E s \in BuilderSize : Size(s)
    \/ Complete
    \/ BuildBloomFilter(0)

SpecBuilder == InitBuilder /\ [][NextBuilder]_vars

(***************************************************************************)
(* The parameter calculator: optimal_test's calls, and the builder that    *)
(* derives its parameters with them.                                       *)
(***************************************************************************)
InitOpt == InitWith({})

NextOpt ==
    \/ \E n \in OptN, p \in OptP : OptimalM(n, p)
    \/ \E n \in OptN, m \in OptM : OptimalK(n, m)
    \/ New(RefN, 10)
    \/ Complete

SpecOpt == InitOpt /\ [][NextOpt]_vars

(***************************************************************************)
(* bloom_hash alone: the caller's cache and hashers, and calls with the    *)
(* indices 0..MaxKi.                                                       *)
(***************************************************************************)
InitHash ==
    /\ builder = <<>>
    /\ filters = <<>>
    /\ added = <<>>
    /\ hashes \in HashPairs
    /\ sips \in {<<sip_new(seed[1]), sip_new(seed[2])>> : seed \in Seeds}
    /\ last = [op |-> "init"]
    /\ panicked = FALSE

NextHash == \E item \in Items, k_i \in 0..MaxKi : BloomHash(item, k_i)

SpecHash == InitHash /\ [][NextHash]_vars

(***************************************************************************)
(* The properties.                                                         *)
(***************************************************************************)

\* C1: no false negatives.  In every reachable state of a built filter,
\* contains answers true for every item that add was called with since
\* the filter was built, whatever else was added or queried in between;
\* and every contains call that was made for such an item returned true.
C1_NoFalseNegatives ==
    /\ \A i \in DOMAIN filters :
          filters[i] # <<>> =>
              \A x \in added[i] : contains(filters[i][1], x).ret
    /\ (last.op = "contains" /\ last.item \in added[last.f]) => last.ret

\* a filter with at least one hash function holds both items, and a
\* contains call has just answered true
C1_Witness ==
    /\ last.op = "contains"
    /\ last.ret
    /\ added[1] = Items
    /\ filters[1][1].builder.hashes # <<>>
    /\ filters[1][1].bits # {}

\* C2: FilterBuilder::new rejects expected_elements == 0 and a probability
\* outside (0, 1), so every builder that exists has valid parameters.
C2_NewValidates ==
    builder # <<>> =>
        /\ builder[1].expected_elements # <<>>
        /\ builder[1].false_positive_probability > 0
        /\ builder[1].false_positive_probability < 1000

\* C3: after finalization (done is true) the builder's size is a multiple
\* of 32 and its hashes is at least 1, on the derived path and on the path
\* with a size supplied before complete; stated for builders whose
\* parameters are valid.
C3_FinalizedSizeAndHashes ==
    (/\ builder # <<>>
     /\ builder[1].done
     /\ builder[1].expected_elements # <<>>
     /\ builder[1].false_positive_probability > 0
     /\ builder[1].false_positive_probability < 1000) =>
        /\ BAnd(builder[1].size, Nat2Big(SUFFIX)) = <<>>
        /\ builder[1].hashes # <<>>

\* C4: for valid (n, p), optimal_m returns (without overflow) the smallest
\* multiple of 32 that is not below the unrounded value: it is divisible
\* by 32, at least the unrounded value, and less than 32 above it.
C4_SmallestMultipleOf32 ==
    last.op = "optimal_m" =>
        /\ ~last.panic
        /\ BAnd(last.ret, Nat2Big(SUFFIX)) = <<>>
        /\ BLe(last.ceil, last.ret)
        /\ BLt(last.ret, BAdd(last.ceil, <<32>>))

\* C5: finalization runs at most once.  Every complete or
\* build_bloom_filter call that returns leaves the builder done; on a
\* builder that is done it changes no field; on one that is not done and
\* has a size it only sets done; on one that is not done and has size 0 it
\* stores optimal_m's size and optimal_k's hashes of that size; and the
\* filter that build_bloom_filter returns has the builder's size and
\* hashes.
C5_FinalizationIdempotent ==
    [][(last'.op \in {"complete", "build_bloom_filter"} /\ ~panicked') =>
          /\ builder'[1].done
          /\ builder[1].done => builder'[1] = builder[1]
          /\ (~builder[1].done /\ builder[1].size # <<>>) =>
                 builder'[1] = [builder[1] EXCEPT !.done = TRUE]
          /\ (~builder[1].done /\ builder[1].size = <<>>) =>
                 /\ builder'[1].size
                        = optimal_m(builder[1].expected_elements,
                                    builder[1].false_positive_probability).m
                 /\ builder'[1].hashes
                        = optimal_k(builder[1].expected_elements,
                                    builder'[1].size)
          /\ last'.op = "build_bloom_filter" =>
                 /\ last'.size = builder'[1].size
                 /\ last'.hashes = builder'[1].hashes]_vars

\* complete has returned on a builder that was done before the call and
\* holds derived parameters
C5_Witness ==
    /\ last.op = "complete"
    /\ last.before.done
    /\ ~panicked
    /\ builder[1].size # <<>>
    /\ builder[1].hashes # <<>>

\* C6: is_compatible_to is reflexive and symmetric, is true exactly when
\* size and hashes are both equal, and is true of any two filters built
\* from the same (n, p); and every call made returned that value.
C6_Compatibility ==
    /\ \A i \in DOMAIN filters, j \in DOMAIN filters :
          (filters[i] # <<>> /\ filters[j] # <<>>) =>
              /\ is_compatible_to(filters[i][1].builder, filters[i][1].builder)
              /\ is_compatible_to(filters[i][1].builder, filters[j][1].builder)
                     = is_compatible_to(filters[j][1].builder,
                                        filters[i][1].builder)
              /\ is_compatible_to(filters[i][1].builder, filters[j][1].builder)
                     = (/\ filters[i][1].builder.size
                               = filters[j][1].builder.size
                        /\ filters[i][1].builder.hashes
                               = filters[j][1].builder.hashes)
              /\ (/\ filters[i][1].builder.expected_elements
                         = filters[j][1].builder.expected_elements
                  /\ filters[i][1].builder.false_positive_probability
                         = filters[j][1].builder.false_positive_probability)
                     => is_compatible_to(filters[i][1].builder,
                                         filters[j][1].builder)
    /\ last.op = "is_compatible_to" =>
          last.ret = is_compatible_to(filters[last.f][1].builder,
                                      filters[last.g][1].builder)

\* two filters of the same (n, p) behind different handles, the builder
\* since made anew with other parameters, and a call that found the two
\* compatible
C6_Witness ==
    /\ last.op = "is_compatible_to"
    /\ last.f # last.g
    /\ last.ret
    /\ filters[1][1].builder.expected_elements
           = filters[2][1].builder.expected_elements
    /\ filters[1][1].builder.false_positive_probability
           = filters[2][1].builder.false_positive_probability
    /\ builder[1].expected_elements
           # filters[1][1].builder.expected_elements

\* C7: add and contains are total on every filter that new followed by
\* build_bloom_filter returns: the filter's size is greater than 0, so
\* the bit index is defined, and no add or contains call panics.
C7_AddContainsTotal ==
    /\ \A i \in DOMAIN filters :
          filters[i] # <<>> => filters[i][1].builder.size # <<>>
    /\ last.op \in {"add", "contains"} => ~panicked

\* C8: add is idempotent and set-only.  An add of an item that was added
\* before leaves the bit array as it is; no add or contains call clears a
\* bit; contains changes no bit.
C8_AddIdempotentSetOnly ==
    [][\A i \in DOMAIN filters :
          (/\ filters[i] # <<>>
           /\ filters'[i] # <<>>
           /\ last'.op \in {"add", "contains"}) =>
              /\ filters[i][1].bits \subseteq filters'[i][1].bits
              /\ last'.op = "contains" =>
                     filters'[i][1].bits = filters[i][1].bits
              /\ (last'.op = "add" /\ last'.f = i /\ last'.item \in added[i])
                     => filters'[i][1].bits = filters[i][1].bits]_vars

\* an item has been added a second time to a filter that holds bits
C8_Witness ==
    /\ last.op = "add"
    /\ last.again
    /\ filters[1][1].bits # {}
    /\ added[1] = Items

\* C9: the reference values.  optimal_m(216553, 0.01) is 2075680, the
\* unrounded 2075674 rounded up to a multiple of 32; optimal_k(216553,
\* 2075680) is 7; and a builder of (216553, 0.01) is finalized with that
\* size and the hashes of the rounded size.
C9_ReferenceValues ==
    /\ (last.op = "optimal_m" /\ last.n = RefN /\ last.p = 10) =>
          /\ ~last.panic
          /\ last.ceil = <<26, 172, 31>>
          /\ last.ret = RefM
    /\ (last.op = "optimal_k" /\ last.n = RefN /\ last.m = RefM) =>
          last.ret = <<7>>
    /\ (builder # <<>> /\ builder[1].done) =>
          /\ builder[1].size = RefM
          /\ builder[1].hashes = <<7>>

\* optimal_m(216553, 0.01) has returned, and complete has derived the
\* parameters of a builder of (216553, 0.01)
C9_Witness ==
    /\ last.op = "optimal_m"
    /\ last.n = RefN
    /\ last.p = 10
    /\ last.ret = RefM
    /\ builder # <<>>
    /\ builder[1].done

\* C10: for an index of 2 or more, bloom_hash returns (h_0 + i * h_1) mod
\* (2^64 - 59), sum and remainder taken without truncation.
C10_DerivedHash ==
    (last.op = "bloom_hash" /\ last.k_i >= 2) =>
        last.ret = BMod(BAdd(last.h0, BMulSmall(last.h1, last.k_i)),
                        HashModulus)

====
